---- MODULE Spec2Model ----
(***************************************************************************)
(* Task Lifecycle Mediator of the Assemblyline service server               *)
(* (assemblyline_service_server/api/v1/task.py): the work-pickup handler    *)
(* get_task, the report handler task_finished with handle_task_result and   *)
(* handle_task_error, and the Heuristic scorer.                             *)
(*                                                                          *)
(* A request is received (Receive), handled by one atomic handler action    *)
(* (get_task or task_finished) that leaves a trace of everything the        *)
(* handler did in `call`, and then delivered (Deliver).  The Dispatch       *)
(* Service, the datastore, the filestore and the metrics exporter are       *)
(* collaborators: calls to them are recorded in the trace.                  *)
(***************************************************************************)
EXTENDS Integers, Sequences, FiniteSets, TLC

VARIABLES
    now,                \* time.time(), in seconds
    status_table,       \* ExpiringHash(SERVICE_STATE_HASH): client_id -> entry
    result_store,       \* STORAGE.result: keys of the stored results
    emptyresult_store,  \* STORAGE.emptyresult: keys of the empty-result markers
    file_store,         \* STORAGE.file: sha256 of the files with metadata
    filestore,          \* forge.get_filestore(): sha256 of the stored blobs
    heuristics,         \* the heuristic catalog: heur_id -> definition
    request,            \* the request in flight, or NoRequest
    call,               \* the trace of the handler's run, or NoCall
    scorer,             \* the Heuristic scorer's last run (ScoreSpec), or NoScore
    reports             \* the reports handled concurrently (DuplicateSpec)

vars == <<now, status_table, result_store, emptyresult_store, file_store,
          filestore, heuristics, request, call, scorer, reports>>

-----------------------------------------------------------------------------
(* Bounds of the model *)

MaxNow == 1

(* Program constants *)

Grace == 5
DefaultTimeout == 30

-----------------------------------------------------------------------------
(* Values *)

NoTask == [sid |-> "none"]
NoEntry == << >>
NoHeader == << >>
NoResponse == [status |-> 0]
NoRequest == [method |-> "none"]
NoCall == [op |-> "none"]
NoScore == [result |-> [outcome |-> "none"]]
NoReports == << >>

Clients == {"c1", "c2"}
Services == {"Extract", "Safelist"}

\* client_info['service_name'], as api_login derives it from the headers
ClientService == [c \in Clients |-> IF c = "c1" THEN "Extract" ELSE "Safelist"]
ServiceVersion == "4.0.1"
ToolVersion == "t1"
Sids == {"sid1"}
TaskHashes == {"f1", "f2"}

\* dispatch_client.service_data: the per-service configuration
ServiceData ==
    [s \in Services |->
        IF s = "Extract" THEN [timeout |-> 60, disable_cache |-> FALSE]
                         ELSE [timeout |-> 90, disable_cache |-> TRUE]]

\* The tasks the Dispatch Service may hand out
Tasks == [sid : Sids, sha256 : TaskHashes, ignore_cache : BOOLEAN]

\* The 'timeout' header: absent, or <<h>> for a value of h half seconds
\* ("-1.5", "0", "1.5")
TimeoutHeaders == {NoHeader, <<-3>>, <<0>>, <<3>>}

\* The faults of the collaborators a pickup call may meet
Faults == {"none", "request_work", "service_data"}

-----------------------------------------------------------------------------
(* get_task *)

\* int(x) of a float given in half seconds: truncation towards zero
IntOfHalves(h) == IF h >= 0 THEN h \div 2 ELSE -((-h) \div 2)

\* timeout = int(float(request.headers.get('timeout', 30)))
Timeout(header) ==
    IF header = NoHeader THEN DefaultTimeout ELSE IntOfHalves(header[1])

\* Result.help_build_key(sha256, service_name, service_version,
\*                       service_tool_version, is_empty=False, task)
ResultKey(task, service_name, service_version, tool_version) ==
    <<task.sha256, service_name, service_version, tool_version>>

\* f"{result_key}.e"
EmptyKey(result_key) == Append(result_key, "e")

\* Mutant: the task's ignore_cache flag is not read
CacheAllowedByServiceOnly(task, service_data) == ~service_data.disable_cache

\* not task.ignore_cache and not service_data.disable_cache
CacheAllowed(task, service_data) ==
    ~task.ignore_cache /\ ~service_data.disable_cache

\* (service_name, ServiceStatus.Idle, time.time() + timeout + 5)
IdleEntry(service_name, timeout) == <<service_name, "Idle", now + timeout + Grace>>

\* Mutant: the second write records the client Idle again
RunningEntryStaysIdle(service_name, service_data) ==
    <<service_name, "Idle", now + service_data.timeout>>

\* (service_name, ServiceStatus.Running, time.time() + service_data.timeout)
RunningEntry(service_name, service_data) ==
    <<service_name, "Running", now + service_data.timeout>>

\* Mutant: the finally clause reports a cache miss whatever happened
ExecuteMetricsAlwaysMiss(cache_miss) == << [execute |-> 1, cache_miss |-> 1] >>

\* Mutant: the finally clause exports nothing
ExecuteMetricsDropped(cache_miss) == << >>

\* The finally clause: export_metrics_once(..., dict(execute=1, cache_miss=...))
ExecuteMetrics(cache_miss) ==
    << [execute |-> 1, cache_miss |-> IF cache_miss THEN 1 ELSE 0] >>

\* The trace of a pickup call up to and including request_work
PickupStart(req) ==
    [op            |-> "get_task",
     time          |-> now,
     status_writes |-> << IdleEntry(req.service_name, Timeout(req.timeout)) >>,
     request_work  |-> << Timeout(req.timeout) >>,
     task          |-> NoTask,
     lookups       |-> << >>,
     finished      |-> << >>,
     failed        |-> << >>,
     metrics       |-> << >>,
     raised        |-> "none",
     response      |-> NoResponse]

\* make_api_response(dict(task=False))
TaskFalse == [task |-> NoTask]

\* make_api_response(dict(task=task.as_primitives()))
TaskResponse(task) == [task |-> task]

\* Mutant: the return after service_finished is missing, and the call goes on
\* to hand the task out
CacheHitFallsThrough(got, task, result_key) ==
    [got EXCEPT
        !.lookups = << "result" >>,
        !.finished = << [sid |-> task.sid, key |-> result_key,
                         result |-> "cached"] >>,
        !.response = TaskResponse(task),
        !.metrics = ExecuteMetrics(FALSE)]

\* A full cached result was found, lines 83-85
CacheHit(got, task, result_key) ==
    [got EXCEPT
        !.lookups = << "result" >>,
        !.finished = << [sid |-> task.sid, key |-> result_key,
                         result |-> "cached"] >>,
        !.response = TaskFalse,
        !.metrics = ExecuteMetrics(FALSE)]

\* Mutant: the task is completed under the result key, not the marker's
EmptyHitUnderResultKey(got, task, result_key) ==
    [got EXCEPT
        !.lookups = << "result", "emptyresult" >>,
        !.finished = << [sid |-> task.sid, key |-> result_key,
                         result |-> "empty"] >>,
        !.response = TaskFalse,
        !.metrics = ExecuteMetrics(FALSE)]

\* An empty-result marker was found, lines 87-91
EmptyHit(got, task, result_key) ==
    [got EXCEPT
        !.lookups = << "result", "emptyresult" >>,
        !.finished = << [sid |-> task.sid, key |-> EmptyKey(result_key),
                         result |-> "empty"] >>,
        !.response = TaskFalse,
        !.metrics = ExecuteMetrics(FALSE)]

\* The task goes to the worker, lines 93-97
HandOut(got, task, service_name, service_data, lookups, cache_miss) ==
    [got EXCEPT
        !.lookups = lookups,
        !.status_writes = Append(@, RunningEntry(service_name, service_data)),
        !.response = TaskResponse(task),
        !.metrics = ExecuteMetrics(cache_miss)]

\* get_task, lines 55-100: the trace of the whole call.  `work` is what
\* request_work returns, `fault` the collaborator that raises, if any:
\* request_work itself (line 65), or the lookup of the service in
\* dispatch_client.service_data (line 78).
GetTaskTrace(req, work, fault) ==
    LET start == PickupStart(req) IN
    IF fault = "request_work" THEN
        [start EXCEPT !.raised = "request_work", !.response = [status |-> 500]]
    ELSE IF work = NoTask THEN
        [start EXCEPT !.response = TaskFalse]
    ELSE
        LET task == work
            got == [start EXCEPT !.task = task]
            result_key == ResultKey(task, req.service_name, req.service_version,
                                    req.service_tool_version)
        IN
        IF fault = "service_data" THEN
            [got EXCEPT !.raised = "service_data",
                        !.response = [status |-> 500],
                        !.metrics = ExecuteMetrics(FALSE)]
        ELSE
            LET service_data == ServiceData[req.service_name] IN
            IF CacheAllowed(task, service_data) THEN
                IF result_key \in result_store THEN
                    CacheHit(got, task, result_key)
                ELSE IF EmptyKey(result_key) \in emptyresult_store THEN
                    EmptyHit(got, task, result_key)
                ELSE
                    HandOut(got, task, req.service_name, service_data,
                            << "result", "emptyresult" >>, TRUE)
            ELSE
                HandOut(got, task, req.service_name, service_data, << >>, FALSE)

\* The pickup requests a worker may send
GetRequests ==
    { [method |-> "GET", client_id |-> c, service_name |-> ClientService[c],
       service_version |-> ServiceVersion, service_tool_version |-> ToolVersion,
       timeout |-> h] : c \in Clients, h \in TimeoutHeaders }

\* The last write of a call to the status table wins
LastWrite(writes) == writes[Len(writes)]

-----------------------------------------------------------------------------
(* The Heuristic scorer *)

SigNames == {"sigA", "sigB"}

\* attack_map.keys(): the known attack ids
AttackMap == {"T1001"}

\* A dict, and the list [] that pop() yields for an omitted 'signatures'
Dict(items) == [type |-> "dict", items |-> items]
EmptyList == [type |-> "list"]
Omitted == [type |-> "omitted"]

NoMax == << >>

Max(a, b) == IF a >= b THEN a ELSE b
Min(a, b) == IF a <= b THEN a ELSE b

\* Mutant: the per-signature score map is not read
SignatureScoreFromBase(definition, sig_name, freq) == definition.score * freq

\* One turn of the loop over signatures.items(), lines 171-174
SignatureScore(definition, sig_name, freq) ==
    IF sig_name \in DOMAIN definition.signature_score_map
    THEN definition.signature_score_map[sig_name] * freq
    ELSE definition.score * freq

\* The loop over signatures.items(), lines 170-174
RECURSIVE SumSignatures(_, _, _)
SumSignatures(definition, items, names) ==
    IF names = {} THEN 0
    ELSE LET sig_name == CHOOSE n \in names : TRUE IN
         SignatureScore(definition, sig_name, items[sig_name])
           + SumSignatures(definition, items, names \ {sig_name})

\* `if definition.max_score:` is the truth value of an optional integer
MaxScoreSet(definition) ==
    definition.max_score # NoMax /\ definition.max_score[1] # 0

\* Check scoring boundaries, lines 180-182
ClampScore(definition, score) ==
    LET floored == Max(definition.score, score) IN
    IF MaxScoreSet(definition) THEN Min(floored, definition.max_score[1])
    ELSE floored

\* Show only attack_ids that are valid, lines 161-166
ValidAttackIds(attack_ids) == SelectSeq(attack_ids, LAMBDA a : a \in AttackMap)

\* Heuristic.__init__, lines 147-182, under the catalog `heuristics`
Heuristic(heur_id, attack_ids, signatures, frequency) ==
    IF heur_id \notin DOMAIN heuristics THEN
        [outcome |-> "InvalidHeuristicException"]
    ELSE
        LET definition == heuristics[heur_id] IN
        IF signatures.type # "dict" THEN
            \* signatures.items() of a list
            [outcome |-> "AttributeError"]
        ELSE
            LET raw == SumSignatures(definition, signatures.items,
                                     DOMAIN signatures.items)
                         + definition.score * frequency
            IN [outcome    |-> "ok",
                heur_id    |-> heur_id,
                name       |-> definition.name,
                attack_ids |-> ValidAttackIds(attack_ids),
                signatures |-> signatures.items,
                raw_score  |-> raw,
                score      |-> ClampScore(definition, raw)]

-----------------------------------------------------------------------------
(* task_finished, handle_task_result, handle_task_error *)

MaxSections == 2

FileHashes == {"x1", "x2"}

\* client_info['service_name'].upper()
Upper(service_name) == IF service_name = "Extract" THEN "EXTRACT" ELSE "SAFELIST"

\* f"{client_info['service_name'].upper()}.{str(section['heuristic']['heur_id'])}"
HeurId(service_name, raw_id) == <<Upper(service_name), raw_id>>

\* section['heuristic'].pop('signatures', [])
PopSignatures(ref) ==
    IF ref.signatures.type = "omitted" THEN EmptyList ELSE ref.signatures

\* section['heuristic'].pop('frequency', 0): the field is << >> when omitted
PopFrequency(ref) == IF ref.frequency = << >> THEN 0 ELSE ref.frequency[1]

\* section['heuristic'].pop('attack_ids', []): the field is << >> when omitted
PopAttackIds(ref) == ref.attack_ids

NoHeuristic == [kind |-> "absent"]
NullHeuristic == [kind |-> "null"]

\* The heuristic assigned to the section, lines 203-227.  The attack and
\* signature lists are kept as the sequence of attack ids and the set of
\* (name, frequency) items.
ScoredHeuristic(heuristic) ==
    [kind      |-> "scored",
     heur_id   |-> heuristic.heur_id,
     score     |-> heuristic.score,
     name      |-> heuristic.name,
     attack    |-> heuristic.attack_ids,
     signature |-> { [name |-> n, frequency |-> heuristic.signatures[n]] :
                       n \in DOMAIN heuristic.signatures }]

\* Mutant: total_score = heuristic.score
AddScoreOverwrites(total_score, score) == score

\* total_score += heuristic.score, line 210
AddScore(total_score, score) == total_score + score

\* The loop over result['result']['sections'], lines 190-230: the sections as
\* rewritten so far, the running total_score, and the exception that ended
\* the loop, if any.
RECURSIVE ScoreSections(_, _, _, _)
ScoreSections(service_name, sections, i, acc) ==
    IF i > Len(sections) THEN acc
    ELSE
        LET section == sections[i] IN
        IF section.heuristic.kind # "raw" THEN
            ScoreSections(service_name, sections, i + 1,
                          [acc EXCEPT !.sections = Append(@, section)])
        ELSE
            LET ref == section.heuristic
                heuristic == Heuristic(HeurId(service_name, ref.heur_id),
                                       PopAttackIds(ref), PopSignatures(ref),
                                       PopFrequency(ref))
            IN
            IF heuristic.outcome = "ok" THEN
                ScoreSections(service_name, sections, i + 1,
                    [acc EXCEPT
                        !.sections = Append(@, [section EXCEPT
                                        !.heuristic = ScoredHeuristic(heuristic)]),
                        !.total_score = AddScore(@, heuristic.score)])
            ELSE IF heuristic.outcome = "InvalidHeuristicException" THEN
                ScoreSections(service_name, sections, i + 1,
                    [acc EXCEPT
                        !.sections = Append(@, [section EXCEPT
                                        !.heuristic = NullHeuristic])])
            ELSE
                [acc EXCEPT !.raised = heuristic.outcome]

\* A section's tags: the tag values it carries, or no 'tags' key at all
Tags(values) == [type |-> "map", values |-> values]
NoTags == [type |-> "omitted"]

\* The tag values workers report: one that passes, one the whitelister
\* removes, and one the Tagging schema rejects
TagValues == {"evil.example", "safe.example", "not-an-ip"}
Whitelisted == {"safe.example"}
SchemaInvalid == {"not-an-ip"}

\* unflatten(tag_whitelister.get_validated_tag_map(flatten(section['tags'])))
GetValidatedTagMap(values) == values \ Whitelisted

\* Mutant: one rejected value empties the section's tags
ConstructSafeAllOrNothing(values) ==
    IF values \cap SchemaInvalid = {}
    THEN [tags |-> values, dropped |-> {}]
    ELSE [tags |-> {}, dropped |-> values]

\* construct_safe(Tagging, section.get('tags', {})): the tags the schema
\* accepts, and the dropped ones
ConstructSafe(values) ==
    [tags |-> values \ SchemaInvalid, dropped |-> values \cap SchemaInvalid]

\* The loop over the sections' tags, lines 245-252: the sections with their
\* validated tags, what was dropped and logged per section, and the
\* exception that ended the loop, if any
RECURSIVE ProcessTags(_, _, _)
ProcessTags(sections, i, acc) ==
    IF i > Len(sections) THEN acc
    ELSE
        LET section == sections[i] IN
        IF section.tags.type = "omitted" THEN
            \* section['tags'] of a section without the key
            [acc EXCEPT !.raised = "KeyError"]
        ELSE
            LET safe == ConstructSafe(GetValidatedTagMap(section.tags.values)) IN
            ProcessTags(sections, i + 1,
                [acc EXCEPT
                    !.sections = Append(@, [section EXCEPT
                                               !.tags = Tags(safe.tags)]),
                    !.dropped = Append(@, safe.dropped)])

\* Mutant: the test of the filestore is inverted
FileMissingIfStored(sha256) == sha256 \notin file_store \/ sha256 \in filestore

\* Mutant: a file counts as missing only when both stores lack it
FileMissingFromBoth(sha256) == sha256 \notin file_store /\ sha256 \notin filestore

\* STORAGE.file.get_if_exists(sha256) is None or not f_transport.exists(sha256)
FileMissing(sha256) == sha256 \notin file_store \/ sha256 \notin filestore

\* The loop over result.response.extracted + result.response.supplementary
MissingFiles(result) ==
    SelectSeq(result.extracted \o result.supplementary, FileMissing)

\* Mutant: the key depends on what the worker found
ReportKeyOfContent(result) ==
    <<result.sha256, result.service_name, result.service_version,
      result.service_tool_version, Len(result.sections)>>

\* Mutant: the key leaves out the tool version
ReportKeyWithoutToolVersion(result) ==
    <<result.sha256, result.service_name, result.service_version>>

\* result.build_key(service_tool_version=..., task=task)
ReportKey(result) ==
    <<result.sha256, result.service_name, result.service_version,
      result.service_tool_version>>

\* error.build_key(service_tool_version=..., task=task)
ErrorKey(error) ==
    <<error.sha256, error.service_name, error.service_version,
      error.service_tool_version, "err">>

\* The metric after service_finished, lines 269-272
ScoreMetrics(score) ==
    IF score > 0 THEN << [scored |-> 1] >> ELSE << [not_scored |-> 1] >>

\* Mutant: the test of the error status is inverted
FailMetricsSwapped(status) ==
    IF status # "FAIL_RECOVERABLE" THEN << [fail_recoverable |-> 1] >>
    ELSE << [fail_nonrecoverable |-> 1] >>

\* The metric after service_failed, lines 296-299
FailMetrics(status) ==
    IF status = "FAIL_RECOVERABLE" THEN << [fail_recoverable |-> 1] >>
    ELSE << [fail_nonrecoverable |-> 1] >>

\* Mutant: the report handler records the worker Idle again
ReportStartMarksIdle ==
    [op            |-> "task_finished",
     time          |-> now,
     status_writes |-> << <<"Extract", "Idle", now + Grace>> >>,
     sections      |-> << >>,
     total_score   |-> 0,
     dropped       |-> << >>,
     missing_files |-> << >>,
     finished      |-> << >>,
     failed        |-> << >>,
     metrics       |-> << >>,
     raised        |-> "none",
     response      |-> NoResponse]

\* The trace of a report call before the body is read: task_finished,
\* handle_task_result and handle_task_error make no status_table.set call
ReportStart ==
    [op            |-> "task_finished",
     time          |-> now,
     status_writes |-> << >>,
     sections      |-> << >>,
     total_score   |-> 0,
     dropped       |-> << >>,
     missing_files |-> << >>,
     finished      |-> << >>,
     failed        |-> << >>,
     metrics       |-> << >>,
     raised        |-> "none",
     response      |-> NoResponse]

\* Mutant: service_finished is called before the missing files are returned
RejectMissingAfterFinish(after, missing_files) ==
    [after EXCEPT
        !.missing_files = missing_files,
        !.finished = << [sid |-> "sid1", key |-> << >>, result |-> "reported",
                         score |-> after.total_score] >>,
        !.response = [success |-> FALSE, missing_files |-> missing_files]]

\* Missing files: return missing_files, and task_finished answers
\* dict(success=False, missing_files=missing_files), lines 261-262 and 127-128
RejectMissing(after, missing_files) ==
    [after EXCEPT
        !.missing_files = missing_files,
        !.response = [success |-> FALSE, missing_files |-> missing_files]]

\* service_finished, the metric, and dict(success=True), lines 264-272 and 129
Forward(after, task, result, total_score) ==
    [after EXCEPT
        !.finished = << [sid |-> task.sid, key |-> ReportKey(result),
                         result |-> "reported", score |-> total_score,
                         sections |-> after.sections] >>,
        !.metrics = ScoreMetrics(total_score),
        !.response = [success |-> TRUE]]

\* The sections after the scoring loop and the loop over their tags, lines
\* 190-252
FinalizeSections(service_name, sections) ==
    LET scored == ScoreSections(service_name, sections, 1,
                                [sections |-> << >>, total_score |-> 0,
                                 raised |-> "none"])
    IN
    IF scored.raised # "none" THEN
        [sections |-> scored.sections, total_score |-> scored.total_score,
         dropped |-> << >>, raised |-> scored.raised]
    ELSE
        LET tagged == ProcessTags(scored.sections, 1,
                                  [sections |-> << >>, dropped |-> << >>,
                                   raised |-> "none"])
        IN [sections |-> tagged.sections, total_score |-> scored.total_score,
            dropped |-> tagged.dropped, raised |-> tagged.raised]

\* handle_task_result, lines 185-275.  Timestamps and the temporary
\* submission data do not decide any branch and are left out.
HandleTaskResult(req, task, result) ==
    LET scored == FinalizeSections(req.service_name, result.sections)
        after == [ReportStart EXCEPT !.sections = scored.sections,
                                     !.total_score = scored.total_score,
                                     !.dropped = scored.dropped]
    IN
    IF scored.raised # "none" THEN
        [after EXCEPT !.raised = scored.raised, !.response = [status |-> 500]]
    ELSE IF ~result.valid THEN
        \* Result(result) raises ValueError
        [after EXCEPT !.raised = "ValueError", !.response = [status |-> 400]]
    ELSE
        LET missing_files == MissingFiles(result) IN
        IF missing_files # << >> THEN RejectMissing(after, missing_files)
        ELSE Forward(after, task, result, scored.total_score)

\* handle_task_error, lines 278-299
HandleTaskError(req, task, error) ==
    IF ~error.valid THEN
        \* Error(error) raises ValueError
        [ReportStart EXCEPT !.raised = "ValueError", !.response = [status |-> 400]]
    ELSE
        [ReportStart EXCEPT
            !.failed = << [sid |-> task.sid, key |-> ErrorKey(error),
                           status |-> error.status] >>,
            !.metrics = FailMetrics(error.status),
            !.response = [success |-> TRUE]]

\* task_finished, lines 118-139
TaskFinishedTrace(req) ==
    IF req.task = "missing" THEN
        \* data['task'] raises KeyError, which the handler does not catch
        [ReportStart EXCEPT !.raised = "KeyError", !.response = [status |-> 500]]
    ELSE IF req.task = "malformed" THEN
        \* ServiceTask(data['task']) raises ValueError
        [ReportStart EXCEPT !.raised = "ValueError", !.response = [status |-> 400]]
    ELSE IF req.kind = "result" THEN
        HandleTaskResult(req, req.the_task, req.result)
    ELSE IF req.kind = "error" THEN
        HandleTaskError(req, req.the_task, req.error)
    ELSE
        [ReportStart EXCEPT !.response = [status |-> 400]]

-----------------------------------------------------------------------------
(* The requests and the handlers' actions *)

SeqsUpTo(S, n) == UNION { [1..k -> S] : k \in 0..n }

Range(seq) == { seq[i] : i \in DOMAIN seq }

\* The heuristic catalog of the two services
HeurDef1 ==
    [name |-> "h1", score |-> 10, max_score |-> NoMax,
     signature_score_map |-> [n \in {"sigA"} |-> 20]]
HeurDef2 ==
    [name |-> "h2", score |-> 5, max_score |-> <<50>>,
     signature_score_map |-> << >>]
ServiceCatalog ==
    [id \in { HeurId(s, n) : s \in Services, n \in {1, 2} } |->
        IF id[2] = 1 THEN HeurDef1 ELSE HeurDef2]

\* The raw heuristic references a section may carry
RawHeuristic(heur_id, attack_ids, signatures, frequency) ==
    [kind |-> "raw", heur_id |-> heur_id, attack_ids |-> attack_ids,
     signatures |-> signatures, frequency |-> frequency]
RawHeuristics ==
    { RawHeuristic(1, <<"T1001", "T9999">>, Dict([n \in {"sigA"} |-> 2]), <<1>>),
      RawHeuristic(2, << >>, Dict(<< >>), << >>),
      RawHeuristic(9, << >>, Dict([n \in {"sigA"} |-> 2]), <<1>>),
      RawHeuristic(1, << >>, Omitted, <<1>>) }

Sections ==
    { [heuristic |-> h, tags |-> Tags({})] : h \in RawHeuristics \cup {NoHeuristic} }

FileLists == { << >>, <<"x1">>, <<"x1", "x2">> }

\* The result payloads of a worker that reports on `task`
ResultPayloads(c, task) ==
    [sha256 : {task.sha256}, service_name : {ClientService[c]},
     service_version : {ServiceVersion}, service_tool_version : {ToolVersion},
     sections : SeqsUpTo(Sections, MaxSections),
     extracted : FileLists, supplementary : { << >>, <<"x2">> },
     valid : BOOLEAN]

\* The error payloads of a worker that reports on `task`
ErrorPayloads(c, task) ==
    [sha256 : {task.sha256}, service_name : {ClientService[c]},
     service_version : {ServiceVersion}, service_tool_version : {ToolVersion},
     status : {"FAIL_RECOVERABLE", "FAIL_NONRECOVERABLE"},
     valid : BOOLEAN]

NoPayload == [valid |-> FALSE]

\* A report request: `task` tells whether data['task'] is there and builds a
\* ServiceTask, `kind` which of 'result' and 'error' the body holds
Report(c, task, the_task, kind, result, error) ==
    [method |-> "POST", client_id |-> c, service_name |-> ClientService[c],
     task |-> task, the_task |-> the_task, kind |-> kind,
     result |-> result, error |-> error]

\* The status table after a handler's status_table.set(client_id, ...) calls
StatusAfter(client_id, writes) ==
    IF writes = << >> THEN status_table
    ELSE [status_table EXCEPT ![client_id] = LastWrite(writes)]

get_task ==
    /\ request # NoRequest
    /\ request.method = "GET"
    /\ call = NoCall
    /\ \E work \in Tasks \cup {NoTask}, fault \in Faults :
         LET trace == GetTaskTrace(request, work, fault) IN
         /\ call' = trace
         /\ status_table' = StatusAfter(request.client_id, trace.status_writes)
    /\ UNCHANGED <<now, result_store, emptyresult_store, file_store, filestore,
                   heuristics, request, scorer, reports>>

\* dispatch_client.service_finished(task.sid, result_key, result, ...): the
\* Dispatch Service saves the Result under the key it is given, unless it no
\* longer knows the task (the task timed out); the mediator does not see
\* which
ServiceFinishedStores(finished) ==
    IF finished = << >> THEN {result_store}
    ELSE {result_store, result_store \cup {finished[1].key}}

task_finished ==
    /\ request # NoRequest
    /\ request.method = "POST"
    /\ call = NoCall
    /\ LET trace == TaskFinishedTrace(request) IN
         /\ call' = trace
         /\ result_store' \in ServiceFinishedStores(trace.finished)
         /\ status_table' = StatusAfter(request.client_id, trace.status_writes)
    /\ UNCHANGED <<now, emptyresult_store, file_store,
                   filestore, heuristics, request, scorer, reports>>

\* A worker polls for work
ReceivePickup ==
    /\ request = NoRequest
    /\ \E r \in GetRequests : request' = r
    /\ UNCHANGED <<now, status_table, result_store, emptyresult_store, file_store,
                   filestore, heuristics, call, scorer, reports>>

\* A worker reports on a task
ReceiveReport ==
    /\ request = NoRequest
    /\ \E c \in Clients, t \in Tasks :
         \/ \E r \in ResultPayloads(c, t) :
              request' = Report(c, "ok", t, "result", r, NoPayload)
         \/ \E e \in ErrorPayloads(c, t) :
              request' = Report(c, "ok", t, "error", NoPayload, e)
         \/ \E k \in {"ok", "missing", "malformed"} :
              request' = Report(c, k, t, "none", NoPayload, NoPayload)
    /\ UNCHANGED <<now, status_table, result_store, emptyresult_store, file_store,
                   filestore, heuristics, call, scorer, reports>>

\* The response is sent
Deliver ==
    /\ call # NoCall
    /\ request' = NoRequest
    /\ call' = NoCall
    /\ UNCHANGED <<now, status_table, result_store, emptyresult_store, file_store,
                   filestore, heuristics, scorer, reports>>

\* Time passes
Tick ==
    /\ now < MaxNow
    /\ now' = now + 1
    /\ UNCHANGED <<status_table, result_store, emptyresult_store, file_store,
                   filestore, heuristics, request, call, scorer, reports, reports>>

AllKeys ==
    { ResultKey(t, s, ServiceVersion, ToolVersion) : t \in Tasks, s \in Services }

-----------------------------------------------------------------------------
(* The pickup protocol: workers poll, the stores hold at most one cached    *)
(* result and one empty-result marker                                       *)

PickupInit ==
    /\ now = 0
    /\ status_table = [c \in Clients |-> NoEntry]
    /\ result_store \in { S \in SUBSET AllKeys : Cardinality(S) <= 1 }
    /\ emptyresult_store \in
         { S \in SUBSET { EmptyKey(k) : k \in AllKeys } : Cardinality(S) <= 1 }
    /\ file_store = {}
    /\ filestore = {}
    /\ heuristics = ServiceCatalog
    /\ request = NoRequest
    /\ call = NoCall
    /\ scorer = NoScore
    /\ reports = NoReports

PickupNext ==
    \/ ReceivePickup
    \/ get_task
    \/ Deliver
    \/ Tick

PickupSpec == PickupInit /\ [][PickupNext]_vars

-----------------------------------------------------------------------------
(* The report protocol: workers report results and errors                   *)

\* The result store starts with a result under every key, so that a report
\* overwrites one; the handler does not read it
ReportInit ==
    /\ now = 0
    /\ status_table = [c \in Clients |-> NoEntry]
    /\ result_store = AllKeys
    /\ emptyresult_store = {}
    /\ file_store \in SUBSET FileHashes
    /\ filestore \in SUBSET FileHashes
    /\ heuristics = ServiceCatalog
    /\ request = NoRequest
    /\ call = NoCall
    /\ scorer = NoScore
    /\ reports = NoReports

ReportNext ==
    \/ ReceiveReport
    \/ task_finished
    \/ Deliver

ReportSpec == ReportInit /\ [][ReportNext]_vars

-----------------------------------------------------------------------------
(* The whole mediator: workers poll and report, starting from empty stores  *)

Init ==
    /\ now = 0
    /\ status_table = [c \in Clients |-> NoEntry]
    /\ result_store = {}
    /\ emptyresult_store = {}
    /\ file_store = {}
    /\ filestore = {}
    /\ heuristics = ServiceCatalog
    /\ request = NoRequest
    /\ call = NoCall
    /\ scorer = NoScore
    /\ reports = NoReports

Next ==
    \/ ReceivePickup
    \/ get_task
    \/ ReceiveReport
    \/ task_finished
    \/ Deliver
    \/ Tick

Spec == Init /\ [][Next]_vars

-----------------------------------------------------------------------------
(* The result cache: workers report plain results, which the Dispatch       *)
(* Service stores, and workers poll; the stores start empty                 *)

\* A result with no section and no file, valid or not
PlainResults(c, task) ==
    { r \in ResultPayloads(c, task) :
        r.sections = << >> /\ r.extracted = << >> /\ r.supplementary = << >> }

\* A worker reports a plain result
ReceivePlainReport ==
    /\ request = NoRequest
    /\ \E c \in Clients, t \in Tasks :
         \E r \in PlainResults(c, t) :
           request' = Report(c, "ok", t, "result", r, NoPayload)
    /\ UNCHANGED <<now, status_table, result_store, emptyresult_store, file_store,
                   filestore, heuristics, call, scorer, reports>>

CacheNext ==
    \/ ReceivePickup
    \/ get_task
    \/ ReceivePlainReport
    \/ task_finished
    \/ Deliver
    \/ Tick

CacheSpec == Init /\ [][CacheNext]_vars

-----------------------------------------------------------------------------
(* The liveness tracker: workers poll, and report plain results and errors  *)

\* A worker reports an error
ReceiveErrorReport ==
    /\ request = NoRequest
    /\ \E c \in Clients, t \in Tasks :
         \E e \in ErrorPayloads(c, t) :
           request' = Report(c, "ok", t, "error", NoPayload, e)
    /\ UNCHANGED <<now, status_table, result_store, emptyresult_store, file_store,
                   filestore, heuristics, call, scorer, reports>>

TrackerNext ==
    \/ ReceivePickup
    \/ get_task
    \/ ReceivePlainReport
    \/ ReceiveErrorReport
    \/ task_finished
    \/ Deliver
    \/ Tick

TrackerSpec == Init /\ [][TrackerNext]_vars

-----------------------------------------------------------------------------
(* Duplicate reports: two workers of one service report results for the     *)
(* same task, and the two runs of handle_task_result interleave at the      *)
(* calls to the datastore, the filestore and the Dispatch Service           *)

DuplicateWorkers == {"d1", "d2"}
DuplicateService == "Extract"
DuplicateTask == [sid |-> "sid1", sha256 |-> "f1", ignore_cache |-> FALSE]

\* The results the two workers may report: one section less than other
\* reports may hold, at most one extracted file
DuplicateResults ==
    [sha256 : {DuplicateTask.sha256}, service_name : {DuplicateService},
     service_version : {ServiceVersion}, service_tool_version : {ToolVersion},
     sections : SeqsUpTo(Sections, MaxSections - 1),
     extracted : { << >>, <<"x1">> }, supplementary : { << >> },
     valid : BOOLEAN]

NoReport == [pc |-> "idle"]

\* task_finished up to the call of handle_task_result, lines 118-126
ReceiveDuplicate(w) ==
    /\ reports[w].pc = "idle"
    /\ \E r \in DuplicateResults :
         reports' = [reports EXCEPT ![w] =
                       [pc |-> "received", client_id |-> w,
                        service_name |-> DuplicateService,
                        task |-> DuplicateTask, result |-> r,
                        trace |-> ReportStart]]
    /\ UNCHANGED <<now, status_table, result_store, emptyresult_store, file_store,
                   filestore, heuristics, request, call, scorer>>

\* The scoring loop, the tags and Result(result), lines 190-254
ScoreStep(w) ==
    /\ reports[w].pc = "received"
    /\ LET rep == reports[w]
           scored == FinalizeSections(rep.service_name, rep.result.sections)
           after == [rep.trace EXCEPT !.sections = scored.sections,
                                      !.total_score = scored.total_score,
                                      !.dropped = scored.dropped]
       IN
       reports' = [reports EXCEPT ![w] =
           IF scored.raised # "none" THEN
               [rep EXCEPT !.pc = "done",
                           !.trace = [after EXCEPT !.raised = scored.raised,
                                                   !.response = [status |-> 500]]]
           ELSE IF ~rep.result.valid THEN
               [rep EXCEPT !.pc = "done",
                           !.trace = [after EXCEPT !.raised = "ValueError",
                                                   !.response = [status |-> 400]]]
           ELSE [rep EXCEPT !.pc = "built", !.trace = after]]
    /\ UNCHANGED <<now, status_table, result_store, emptyresult_store, file_store,
                   filestore, heuristics, request, call, scorer>>

\* The file check, lines 256-262, and the answer of task_finished when files
\* are missing, lines 127-128
VerifyStep(w) ==
    /\ reports[w].pc = "built"
    /\ LET rep == reports[w]
           missing_files == MissingFiles(rep.result)
       IN
       reports' = [reports EXCEPT ![w] =
           IF missing_files # << >>
           THEN [rep EXCEPT !.pc = "done",
                            !.trace = RejectMissing(rep.trace, missing_files)]
           ELSE [rep EXCEPT !.pc = "verified"]]
    /\ UNCHANGED <<now, status_table, result_store, emptyresult_store, file_store,
                   filestore, heuristics, request, call, scorer>>

\* result.build_key and dispatch_client.service_finished, lines 264-265
ForwardStep(w) ==
    /\ reports[w].pc = "verified"
    /\ LET rep == reports[w]
           forwarded == Forward(rep.trace, rep.task, rep.result,
                                rep.trace.total_score)
       IN
       /\ reports' = [reports EXCEPT ![w] =
              [rep EXCEPT !.pc = "forwarded",
                          !.trace = [rep.trace EXCEPT
                                        !.finished = forwarded.finished]]]
       /\ result_store' \in ServiceFinishedStores(forwarded.finished)
    /\ UNCHANGED <<now, status_table, emptyresult_store, file_store,
                   filestore, heuristics, request, call, scorer>>

\* The metric, lines 269-272, and dict(success=True), line 129
RespondStep(w) ==
    /\ reports[w].pc = "forwarded"
    /\ LET rep == reports[w]
           forwarded == Forward(rep.trace, rep.task, rep.result,
                                rep.trace.total_score)
       IN
       reports' = [reports EXCEPT ![w] =
           [rep EXCEPT !.pc = "done",
                       !.trace = [rep.trace EXCEPT
                                     !.metrics = forwarded.metrics,
                                     !.response = forwarded.response]]]
    /\ UNCHANGED <<now, status_table, result_store, emptyresult_store, file_store,
                   filestore, heuristics, request, call, scorer>>

\* The response is sent to the worker
DeliverDuplicate(w) ==
    /\ reports[w].pc = "done"
    /\ reports' = [reports EXCEPT ![w] = NoReport]
    /\ UNCHANGED <<now, status_table, result_store, emptyresult_store, file_store,
                   filestore, heuristics, request, call, scorer>>

DuplicateInit ==
    /\ now = 0
    /\ status_table = [c \in Clients |-> NoEntry]
    /\ result_store = {}
    /\ emptyresult_store = {}
    /\ file_store \in SUBSET {"x1"}
    /\ filestore = FileHashes
    /\ heuristics = ServiceCatalog
    /\ request = NoRequest
    /\ call = NoCall
    /\ scorer = NoScore
    /\ reports = [w \in DuplicateWorkers |-> NoReport]

DuplicateNext ==
    \E w \in DuplicateWorkers :
        \/ ReceiveDuplicate(w)
        \/ ScoreStep(w)
        \/ VerifyStep(w)
        \/ ForwardStep(w)
        \/ RespondStep(w)
        \/ DeliverDuplicate(w)

DuplicateSpec == DuplicateInit /\ [][DuplicateNext]_vars

-----------------------------------------------------------------------------
(* Retries: a worker whose report was answered with missing files keeps     *)
(* the report, uploads files and submits the same report again              *)

RetryWorkers == {"d1"}

\* The results the worker may report
RetryResults ==
    [sha256 : {DuplicateTask.sha256}, service_name : {DuplicateService},
     service_version : {ServiceVersion}, service_tool_version : {ToolVersion},
     sections : SeqsUpTo(Sections, MaxSections - 1),
     extracted : FileLists, supplementary : { << >>, <<"x2">> },
     valid : BOOLEAN]

\* The files a result references that are not in both stores
Absent(result) ==
    { h \in Range(result.extracted) \cup Range(result.supplementary) :
        ~(h \in file_store /\ h \in filestore) }

\* task_finished up to the call of handle_task_result, lines 118-126
ReceiveRetryable(w) ==
    /\ reports[w].pc = "idle"
    /\ \E r \in RetryResults :
         reports' = [reports EXCEPT ![w] =
                       [pc |-> "received", client_id |-> w,
                        service_name |-> DuplicateService,
                        task |-> DuplicateTask, result |-> r,
                        trace |-> ReportStart,
                        resubmitted |-> FALSE, ready |-> FALSE]]
    /\ UNCHANGED <<now, status_table, result_store, emptyresult_store, file_store,
                   filestore, heuristics, request, call, scorer>>

\* The response dict(success=False, missing_files=...) reaches the worker,
\* which keeps its report
DeliverRejection(w) ==
    /\ reports[w].pc = "done"
    /\ reports[w].trace.missing_files # << >>
    /\ reports' = [reports EXCEPT ![w].pc = "rejected"]
    /\ UNCHANGED <<now, status_table, result_store, emptyresult_store, file_store,
                   filestore, heuristics, request, call, scorer>>

\* The worker uploads one of the files listed as missing: the file gets its
\* metadata record and its blob
Upload(w) ==
    /\ reports[w].pc = "rejected"
    /\ \E h \in Range(reports[w].trace.missing_files) :
         /\ file_store' = file_store \cup {h}
         /\ filestore' = filestore \cup {h}
    /\ UNCHANGED <<now, status_table, result_store, emptyresult_store,
                   heuristics, request, call, scorer, reports>>

\* The worker submits the same report again; `ready` tells whether every
\* file listed as missing was in both stores by then
Resubmit(w) ==
    /\ reports[w].pc = "rejected"
    /\ LET rep == reports[w] IN
       reports' = [reports EXCEPT ![w] =
           [rep EXCEPT !.pc = "received",
                       !.trace = ReportStart,
                       !.resubmitted = TRUE,
                       !.ready = \A h \in Range(rep.trace.missing_files) :
                                    h \in file_store /\ h \in filestore]]
    /\ UNCHANGED <<now, status_table, result_store, emptyresult_store, file_store,
                   filestore, heuristics, request, call, scorer>>

RetryInit ==
    /\ now = 0
    /\ status_table = [c \in Clients |-> NoEntry]
    /\ result_store = {}
    /\ emptyresult_store = {}
    /\ file_store \in SUBSET FileHashes
    /\ filestore \in SUBSET FileHashes
    /\ heuristics = ServiceCatalog
    /\ request = NoRequest
    /\ call = NoCall
    /\ scorer = NoScore
    /\ reports = [w \in RetryWorkers |-> NoReport]

RetryNext ==
    \E w \in RetryWorkers :
        \/ ReceiveRetryable(w)
        \/ ScoreStep(w)
        \/ VerifyStep(w)
        \/ ForwardStep(w)
        \/ RespondStep(w)
        \/ DeliverDuplicate(w)
        \/ DeliverRejection(w)
        \/ Upload(w)
        \/ Resubmit(w)

RetrySpec == RetryInit /\ [][RetryNext]_vars

-----------------------------------------------------------------------------
(* Tagged reports: workers report results whose sections carry tags         *)

\* The sections of a tagged report: with or without a heuristic, with any
\* tag values or without the 'tags' key
TaggedSections ==
    { [heuristic |-> h, tags |-> t] :
        h \in {NoHeuristic, RawHeuristic(2, << >>, Dict(<< >>), << >>)},
        t \in { Tags(S) : S \in SUBSET TagValues } \cup {NoTags} }

TaggedResults(c, task) ==
    [sha256 : {task.sha256}, service_name : {ClientService[c]},
     service_version : {ServiceVersion}, service_tool_version : {ToolVersion},
     sections : SeqsUpTo(TaggedSections, MaxSections),
     extracted : { << >> }, supplementary : { << >> },
     valid : BOOLEAN]

\* A worker reports a result with tags
ReceiveTaggedReport ==
    /\ request = NoRequest
    /\ \E c \in Clients, t \in Tasks :
         \E r \in TaggedResults(c, t) :
           request' = Report(c, "ok", t, "result", r, NoPayload)
    /\ UNCHANGED <<now, status_table, result_store, emptyresult_store, file_store,
                   filestore, heuristics, call, scorer, reports>>

TagNext ==
    \/ ReceiveTaggedReport
    \/ task_finished
    \/ Deliver

TagInit ==
    /\ now = 0
    /\ status_table = [c \in Clients |-> NoEntry]
    /\ result_store = AllKeys
    /\ emptyresult_store = {}
    /\ file_store = FileHashes
    /\ filestore = FileHashes
    /\ heuristics = ServiceCatalog
    /\ request = NoRequest
    /\ call = NoCall
    /\ scorer = NoScore
    /\ reports = NoReports

TagSpec == TagInit /\ [][TagNext]_vars

-----------------------------------------------------------------------------
(* The scorer alone: a catalog of one definition drawn from bounded sets,   *)
(* and the scorer applied to bounded inputs                                 *)

MaxFreq == 3

Freqs == -1 .. MaxFreq
BaseScores == {-5, 0, 10}
MaxScores == {NoMax, <<0>>, <<50>>}
ScoreMaps == { << >>, [n \in {"sigA"} |-> 20] }

ScoredId == HeurId("Extract", 1)

HeurDefs ==
    [name : {"h"}, score : BaseScores, max_score : MaxScores,
     signature_score_map : ScoreMaps]

SignatureDicts == UNION { [S -> Freqs] : S \in SUBSET SigNames }

\* Heuristic(heur_id, attack_ids, signatures, frequency) is constructed
Score ==
    /\ \E raw_id \in {1, 9}, items \in SignatureDicts, frequency \in -1 .. 1 :
         scorer' = [heur_id    |-> HeurId("Extract", raw_id),
                    signatures |-> items,
                    frequency  |-> frequency,
                    result     |-> Heuristic(HeurId("Extract", raw_id), << >>,
                                             Dict(items), frequency)]
    /\ UNCHANGED <<now, status_table, result_store, emptyresult_store, file_store,
                   filestore, heuristics, request, call, reports>>

ScoreInit ==
    /\ now = 0
    /\ status_table = [c \in Clients |-> NoEntry]
    /\ result_store = {}
    /\ emptyresult_store = {}
    /\ file_store = {}
    /\ filestore = {}
    /\ heuristics \in { [id \in {ScoredId} |-> d] : d \in HeurDefs }
    /\ request = NoRequest
    /\ call = NoCall
    /\ scorer = NoScore
    /\ reports = NoReports

ScoreNext == Score

ScoreSpec == ScoreInit /\ [][ScoreNext]_vars

-----------------------------------------------------------------------------
(* Properties of the pickup protocol (PickupSpec)                           *)

PickupCall == call.op = "get_task"

\* The call got a task from request_work
GotTask == PickupCall /\ call.task # NoTask

\* The response hands a task to the worker
ReturnsTask == "task" \in DOMAIN call.response /\ call.response.task # NoTask

\* The result key of the task the call got
TaskKey ==
    ResultKey(call.task, request.service_name, request.service_version,
              request.service_tool_version)

CachedUnderTaskKey ==
    TaskKey \in result_store \/ EmptyKey(TaskKey) \in emptyresult_store

\* C1: a pickup call that consults the cache and finds a full result or an
\* empty-result marker under the task's key calls service_finished for the
\* task and answers task=false; no pickup call both completes a task from
\* the cache and returns it to the worker.
C1_CacheHitCompletesTask ==
    GotTask =>
      /\ (call.raised = "none" /\ call.lookups # << >> /\ CachedUnderTaskKey)
           => /\ Len(call.finished) = 1
              /\ call.finished[1].sid = call.task.sid
              /\ call.finished[1].key \in {TaskKey, EmptyKey(TaskKey)}
              /\ call.response = TaskFalse
      /\ call.finished # << >> => ~ReturnsTask

C1_Witness ==
    /\ GotTask
    /\ TaskKey \in result_store
    /\ Len(call.finished) = 1
    /\ call.finished[1].key = TaskKey
    /\ call.response = TaskFalse

\* C2: when the task sets ignore_cache or the service's configuration sets
\* disable_cache, a pickup call that raises no error looks up neither store,
\* does not call service_finished, and returns the task to the worker, also
\* when a result is cached under the task's key.
C2_CacheBypassed ==
    (GotTask /\ call.raised = "none"
       /\ (call.task.ignore_cache \/ ServiceData[request.service_name].disable_cache))
      => /\ call.lookups = << >>
         /\ call.finished = << >>
         /\ call.response = TaskResponse(call.task)

C2_Witness ==
    /\ GotTask
    /\ call.task.ignore_cache
    /\ ~ServiceData[request.service_name].disable_cache
    /\ TaskKey \in result_store
    /\ call.finished = << >>
    /\ call.response = TaskResponse(call.task)

\* C4 as claimed: every pickup call emits the execute metric exactly once,
\* whichever branch it returns through.
C4_ExecuteOncePerCall ==
    PickupCall => Len(call.metrics) = 1 /\ call.metrics[1].execute = 1

\* C4 as amended: a pickup call that got a task from request_work emits the
\* execute metric exactly once, whether it ends in a cache hit, an
\* empty-result hit, the task returned to the worker or an error raised after
\* the task was obtained; a call that got no task (none available, or
\* request_work raised) emits no metric.
C4_ExecuteOncePerTask ==
    PickupCall =>
      IF call.task # NoTask
      THEN Len(call.metrics) = 1 /\ call.metrics[1].execute = 1
      ELSE call.metrics = << >>

C4_Witness ==
    /\ GotTask
    /\ call.raised = "service_data"
    /\ Len(call.metrics) = 1
    /\ call.metrics[1].execute = 1

-----------------------------------------------------------------------------
(* Properties of the pickup protocol, continued                             *)

\* C9 as claimed: a pickup call never passes a zero or negative timeout to
\* request_work, nor records an Idle deadline computed from one: the call is
\* rejected before either, or the timeout is clamped to a positive minimum.
C9_TimeoutPositive ==
    PickupCall =>
      /\ \A i \in DOMAIN call.request_work : call.request_work[i] > 0
      /\ \A i \in DOMAIN call.status_writes :
           call.status_writes[i][2] = "Idle"
             => call.status_writes[i][3] > call.time + Grace

-----------------------------------------------------------------------------
(* Properties of the report protocol (ReportSpec)                           *)

ReportCall == call.op = "task_finished"

\* The report is a result report with a well-formed task
ResultReport == ReportCall /\ request.task = "ok" /\ request.kind = "result"

Success == "success" \in DOMAIN call.response /\ call.response.success

\* The files the reported result references
ReferencedFiles == Range(request.result.extracted) \cup Range(request.result.supplementary)

\* Those absent from the file-metadata table or from the blob store
AbsentFiles == { h \in ReferencedFiles : ~(h \in file_store /\ h \in filestore) }

Notifications == Len(call.finished) + Len(call.failed)

\* Every raw heuristic reference of the reported result carries its
\* signature map, as a ResultSection does
WellFormedSections ==
    \A i \in DOMAIN request.result.sections :
        request.result.sections[i].heuristic.kind = "raw"
          => request.result.sections[i].heuristic.signatures.type = "dict"

\* C3: a result report that references an extracted or supplementary file
\* absent from the blob store or from the file-metadata table never reaches
\* service_finished, and when the report builds a Result (its sections are
\* well formed and the payload is valid) it is answered success=false with
\* exactly the absent hashes in missing_files.
C3_MissingFilesRejected ==
    (ResultReport /\ AbsentFiles # {}) =>
      /\ call.finished = << >>
      /\ (WellFormedSections /\ request.result.valid) =>
           /\ call.raised = "none"
           /\ "success" \in DOMAIN call.response
           /\ call.response.success = FALSE
           /\ Range(call.response.missing_files) = AbsentFiles

C3_Witness ==
    /\ ResultReport
    /\ request.result.sections # << >>
    /\ "x1" \in file_store /\ "x1" \notin filestore
    /\ "x2" \in filestore /\ "x2" \notin file_store
    /\ AbsentFiles = {"x1", "x2"}
    /\ call.finished = << >>
    /\ "success" \in DOMAIN call.response
    /\ ~call.response.success
    /\ Range(call.response.missing_files) = {"x1", "x2"}

\* C10: a report call calls service_finished or service_failed at most once in
\* all, answers success=true exactly when it made that call, and calls
\* neither when it ends with missing files or a validation failure.
C10_AtMostOneNotification ==
    ReportCall =>
      /\ Notifications <= 1
      /\ Success <=> Notifications = 1
      /\ (call.missing_files # << >> \/ call.raised = "ValueError"
            \/ call.response = [status |-> 400]) => Notifications = 0

C10_Witness ==
    /\ ReportCall
    /\ request.kind = "error"
    /\ Len(call.failed) = 1
    /\ call.finished = << >>
    /\ Success

\* The sections of the reported result that carry a raw heuristic reference
\* with a heuristic id of the catalog
ValidSections ==
    { i \in DOMAIN request.result.sections :
        /\ request.result.sections[i].heuristic.kind = "raw"
        /\ HeurId(request.service_name, request.result.sections[i].heuristic.heur_id)
             \in DOMAIN heuristics }

InvalidSections ==
    { i \in DOMAIN request.result.sections :
        /\ request.result.sections[i].heuristic.kind = "raw"
        /\ HeurId(request.service_name, request.result.sections[i].heuristic.heur_id)
             \notin DOMAIN heuristics }

\* The score the scorer gives the raw heuristic reference of section i
SectionScore(i) ==
    LET ref == request.result.sections[i].heuristic IN
    Heuristic(HeurId(request.service_name, ref.heur_id), PopAttackIds(ref),
              PopSignatures(ref), PopFrequency(ref)).score

RECURSIVE SumOver(_)
SumOver(indices) ==
    IF indices = {} THEN 0
    ELSE LET i == CHOOSE j \in indices : TRUE IN
         SectionScore(i) + SumOver(indices \ {i})

Reverse(seq) == [i \in DOMAIN seq |-> seq[Len(seq) + 1 - i]]

\* A result report whose raw heuristic references are well formed
ScoredReport == ResultReport /\ WellFormedSections

\* C5: in a result report, each section with a heuristic id that is not in
\* the catalog has its heuristic set to null, each section with a valid
\* heuristic carries the score the scorer computed, the total score is the
\* sum of the scores of the sections with a valid heuristic, the same for the
\* sections in reverse order, and a report with no missing file and a valid
\* payload is forwarded to service_finished with that score.
C5_InvalidHeuristicDegradesSection ==
    ScoredReport =>
      /\ call.raised \in {"none", "ValueError"}
      /\ Len(call.sections) = Len(request.result.sections)
      /\ \A i \in InvalidSections : call.sections[i].heuristic = NullHeuristic
      /\ \A i \in ValidSections :
           /\ call.sections[i].heuristic.kind = "scored"
           /\ call.sections[i].heuristic.score = SectionScore(i)
      /\ call.total_score = SumOver(ValidSections)
      /\ ScoreSections(request.service_name, Reverse(request.result.sections), 1,
                       [sections |-> << >>, total_score |-> 0,
                        raised |-> "none"]).total_score = call.total_score
      /\ (request.result.valid /\ AbsentFiles = {}) =>
           /\ Success
           /\ Len(call.finished) = 1
           /\ call.finished[1].score = SumOver(ValidSections)

C5_Witness ==
    /\ ScoredReport
    /\ Len(request.result.sections) = 2
    /\ InvalidSections = {1}
    /\ ValidSections = {2}
    /\ call.sections[1].heuristic = NullHeuristic
    /\ call.sections[2].heuristic.score = 50
    /\ Len(call.finished) = 1
    /\ call.finished[1].score = 50
    /\ Success

-----------------------------------------------------------------------------
(* Properties of the scorer (ScoreSpec)                                     *)

Scored == scorer.result.outcome = "ok"

ScoredDef == heuristics[ScoredId]

\* What one reported signature adds to the score: its frequency times the
\* per-signature score if the definition has one, else times the base score
Weighted(sig_name) ==
    IF sig_name \notin DOMAIN scorer.signatures THEN 0
    ELSE IF sig_name \in DOMAIN ScoredDef.signature_score_map
         THEN ScoredDef.signature_score_map[sig_name] * scorer.signatures[sig_name]
         ELSE ScoredDef.score * scorer.signatures[sig_name]

\* C6 as claimed: for a definition with base score B and max score M, with
\* M >= B or M unset, the score is at least B, and at most M when M is set.
C6_ScoreWithinBounds ==
    (Scored /\ (ScoredDef.max_score = NoMax
                  \/ ScoredDef.max_score[1] >= ScoredDef.score))
      => /\ scorer.result.score >= ScoredDef.score
         /\ ScoredDef.max_score # NoMax
              => scorer.result.score <= ScoredDef.max_score[1]

\* C7: before clamping, the score is the sum of the reported signatures'
\* weighted frequencies plus the base score times the occurrence frequency;
\* base 10 with sigA scored 20, signatures {sigA: 2, sigB: 3} and frequency 1
\* give 80 with no max score and 50 with max score 50.
C7_ScoreIsWeightedSum ==
    Scored =>
      /\ scorer.result.raw_score =
           Weighted("sigA") + Weighted("sigB") + ScoredDef.score * scorer.frequency
      /\ ( /\ ScoredDef.score = 10
           /\ ScoredDef.signature_score_map = [n \in {"sigA"} |-> 20]
           /\ scorer.signatures = [n \in SigNames |-> IF n = "sigA" THEN 2 ELSE 3]
           /\ scorer.frequency = 1 )
           => /\ scorer.result.raw_score = 80
              /\ ScoredDef.max_score = NoMax => scorer.result.score = 80
              /\ ScoredDef.max_score = <<50>> => scorer.result.score = 50

C7_Witness ==
    /\ Scored
    /\ ScoredDef.score = 10
    /\ ScoredDef.max_score = <<50>>
    /\ ScoredDef.signature_score_map = [n \in {"sigA"} |-> 20]
    /\ scorer.signatures = [n \in SigNames |-> IF n = "sigA" THEN 2 ELSE 3]
    /\ scorer.frequency = 1
    /\ scorer.result.raw_score = 80
    /\ scorer.result.score = 50

-----------------------------------------------------------------------------
(* Properties of the report protocol, continued (ReportSpec)                *)

\* The report body is malformed: the task is missing or does not build a
\* ServiceTask, the result (its heuristic references well formed, so that
\* the scorer is not what fails) or the error does not build its model, or
\* the body holds neither a result nor an error
MalformedReport ==
    /\ ReportCall
    /\ \/ request.task # "ok"
       \/ request.kind = "none"
       \/ request.kind = "result" /\ ~request.result.valid /\ WellFormedSections
       \/ request.kind = "error" /\ ~request.error.valid

BadRequest ==
    "status" \in DOMAIN call.response /\ call.response.status \in 400 .. 499

\* C11 as claimed: a malformed report body is answered with a 400-class
\* response, calls neither service_finished nor service_failed, and emits no
\* outcome metric.
C11_MalformedReportRejected ==
    MalformedReport =>
      /\ BadRequest
      /\ Notifications = 0
      /\ call.metrics = << >>

-----------------------------------------------------------------------------
(* Properties of the pickup protocol, continued (PickupSpec)                *)

\* C12: every pickup call (its timeout header absent or a number) first
\* records the client Idle with deadline now + timeout + grace; it records
\* the client Running, with deadline now + the service's timeout, as a
\* second and last write exactly when it returns a task to the worker; so
\* after a call that ends in an empty poll, a cache hit or an error the
\* client's entry in the status table is the Idle one.
C12_IdleThenRunning ==
    PickupCall =>
      /\ Len(call.status_writes) >= 1
      /\ call.status_writes[1] =
           <<request.service_name, "Idle",
             call.time + Timeout(request.timeout) + Grace>>
      /\ ReturnsTask <=>
           /\ Len(call.status_writes) = 2
           /\ call.status_writes[2] =
                <<request.service_name, "Running",
                  call.time + ServiceData[request.service_name].timeout>>
      /\ ~ReturnsTask => Len(call.status_writes) = 1
      /\ status_table[request.client_id] = LastWrite(call.status_writes)
      /\ status_table[request.client_id][2] =
           (IF ReturnsTask THEN "Running" ELSE "Idle")

C12_Witness ==
    /\ GotTask
    /\ Len(call.finished) = 1
    /\ call.response = TaskFalse
    /\ status_table[request.client_id] =
         <<request.service_name, "Idle", call.time + DefaultTimeout + Grace>>
    /\ \E c \in Clients : status_table[c] # NoEntry /\ status_table[c][2] = "Running"

\* The cache may be consulted for the task the call got
CacheConsultable ==
    /\ ~call.task.ignore_cache
    /\ ~ServiceData[request.service_name].disable_cache

\* C16: the execute metric of a pickup call that got a task carries
\* cache_miss = 1 exactly when the cache was consulted and held neither a
\* result nor an empty-result marker under the task's key, and the task is
\* then returned to the worker; the flag is 0 on a cache hit, when the task
\* or the service bypasses the cache, and when the call fails before the
\* cache is consulted.
C16_CacheMissFlag ==
    GotTask =>
      /\ Len(call.metrics) = 1
      /\ call.metrics[1].cache_miss \in {0, 1}
      /\ call.metrics[1].cache_miss = 1 <=>
           /\ call.raised = "none"
           /\ CacheConsultable
           /\ ~CachedUnderTaskKey
      /\ call.metrics[1].cache_miss = 1 =>
           /\ call.lookups = << "result", "emptyresult" >>
           /\ call.finished = << >>
           /\ call.response = TaskResponse(call.task)
      /\ call.finished # << >> => call.metrics[1].cache_miss = 0
      /\ call.lookups = << >> => call.metrics[1].cache_miss = 0

C16_Witness ==
    /\ GotTask
    /\ CacheConsultable
    /\ result_store # {}
    /\ ~CachedUnderTaskKey
    /\ call.metrics = << [execute |-> 1, cache_miss |-> 1] >>
    /\ call.response = TaskResponse(call.task)

\* C17: a pickup call looks up the empty-result marker only after the
\* lookup of the full result missed; when only the marker is stored the
\* task is completed once, with an empty result under the marker's key (the
\* result key followed by "e"), and the worker gets no task; when both are
\* stored the full result is used; and no pickup call calls
\* service_finished more than once.
C17_EmptyMarkerAfterResult ==
    PickupCall =>
      /\ Len(call.finished) <= 1
      /\ "emptyresult" \in Range(call.lookups) =>
           /\ call.lookups = << "result", "emptyresult" >>
           /\ TaskKey \notin result_store
      /\ (GotTask /\ call.raised = "none" /\ CacheConsultable) =>
           /\ (TaskKey \notin result_store
                 /\ EmptyKey(TaskKey) \in emptyresult_store) =>
                /\ call.finished =
                     << [sid |-> call.task.sid, key |-> Append(TaskKey, "e"),
                         result |-> "empty"] >>
                /\ call.response = TaskFalse
           /\ TaskKey \in result_store =>
                /\ call.lookups = << "result" >>
                /\ call.finished =
                     << [sid |-> call.task.sid, key |-> TaskKey,
                         result |-> "cached"] >>

C17_Witness ==
    /\ GotTask
    /\ TaskKey \notin result_store
    /\ result_store # {}
    /\ EmptyKey(TaskKey) \in emptyresult_store
    /\ call.lookups = << "result", "emptyresult" >>
    /\ Len(call.finished) = 1
    /\ call.finished[1].result = "empty"
    /\ call.response = TaskFalse

\* The report is an error report whose task and error build their models
ErrorReport ==
    /\ ReportCall
    /\ request.task = "ok"
    /\ request.kind = "error"
    /\ request.error.valid

\* C19: a well-formed error report calls service_failed exactly once, with
\* the task's sid and the error's key, calls service_finished never, emits
\* exactly one metric, fail_recoverable when the error's status is
\* FAIL_RECOVERABLE and fail_nonrecoverable otherwise, and is answered
\* success=true.
C19_ErrorReportFails ==
    ErrorReport =>
      /\ call.raised = "none"
      /\ call.failed =
           << [sid |-> request.the_task.sid, key |-> ErrorKey(request.error),
               status |-> request.error.status] >>
      /\ call.finished = << >>
      /\ Len(call.metrics) = 1
      /\ DOMAIN call.metrics[1] =
           (IF request.error.status = "FAIL_RECOVERABLE"
            THEN {"fail_recoverable"} ELSE {"fail_nonrecoverable"})
      /\ \A m \in DOMAIN call.metrics[1] : call.metrics[1][m] = 1
      /\ Success

C19_Witness ==
    /\ ErrorReport
    /\ request.error.status = "FAIL_NONRECOVERABLE"
    /\ Len(call.failed) = 1
    /\ call.finished = << >>
    /\ DOMAIN call.metrics[1] = {"fail_nonrecoverable"}
    /\ Success

\* The raw heuristic reference of section i leaves out a field
OmitsField(i) ==
    LET ref == request.result.sections[i].heuristic IN
    \/ ref.signatures.type = "omitted"
    \/ ref.attack_ids = << >>
    \/ ref.frequency = << >>

\* The scorer's result for section i with an omitted signature map read as
\* the empty map
ScoreWithDefaults(i) ==
    LET ref == request.result.sections[i].heuristic IN
    Heuristic(HeurId(request.service_name, ref.heur_id), PopAttackIds(ref),
              IF ref.signatures.type = "omitted" THEN Dict(<< >>)
              ELSE ref.signatures,
              PopFrequency(ref))

\* C20 as claimed: in a result report, a section whose raw heuristic
\* reference has a heuristic id of the catalog and omits signatures,
\* attack ids or frequency is scored with the omitted field read as empty
\* or zero, and the report does not end in an unhandled error.
C20_OmittedFieldsScored ==
    ResultReport =>
      \A i \in ValidSections :
        OmitsField(i) =>
          /\ call.raised \in {"none", "ValueError"}
          /\ Len(call.sections) = Len(request.result.sections)
          /\ call.sections[i].heuristic.kind = "scored"
          /\ call.sections[i].heuristic.score = ScoreWithDefaults(i).score
          /\ call.sections[i].heuristic.attack = << >>
               \/ request.result.sections[i].heuristic.attack_ids # << >>

-----------------------------------------------------------------------------
(* Properties of the result cache (CacheSpec)                               *)

-----------------------------------------------------------------------------
(* Properties of duplicate reports (DuplicateSpec)                          *)

\* The key a pickup computes for the task the two workers report on
DuplicateKey ==
    ResultKey(DuplicateTask, DuplicateService, ServiceVersion, ToolVersion)

Forwarded(w) ==
    reports[w].pc \in {"forwarded", "done"} /\ reports[w].trace.finished # << >>

-----------------------------------------------------------------------------
(* Properties of retries (RetrySpec)                                        *)

Rejected(w) ==
    reports[w].pc \in {"done", "rejected"} /\ reports[w].trace.missing_files # << >>

\* What a rejected report and a resubmitted report have done
RetryOutcome ==
    \A w \in RetryWorkers :
      /\ Rejected(w) =>
           /\ reports[w].trace.finished = << >>
           /\ reports[w].trace.failed = << >>
           /\ reports[w].trace.metrics = << >>
           /\ reports[w].trace.response =
                [success |-> FALSE,
                 missing_files |-> reports[w].trace.missing_files]
      /\ (reports[w].pc = "done" /\ reports[w].resubmitted /\ reports[w].ready) =>
           /\ reports[w].trace.response = [success |-> TRUE]
           /\ reports[w].trace.missing_files = << >>
           /\ reports[w].trace.finished =
                << [sid |-> DuplicateTask.sid, key |-> DuplicateKey,
                    result |-> "reported",
                    score |-> reports[w].trace.total_score,
                    sections |-> reports[w].trace.sections] >>

\* C15: a result report answered with missing_files made no call to the
\* Dispatch Service and emitted no metric, and the step that rejects it
\* leaves the result store as it was; the same report, submitted again when
\* every file listed as missing is in the file-metadata table and in the
\* filestore, is answered success=true and forwarded to service_finished
\* exactly once, with the task's sid and key.
C15_ResubmissionAccepted ==
    [][ /\ RetryOutcome'
        /\ \A w \in RetryWorkers :
             (~Rejected(w) /\ Rejected(w)') => result_store' = result_store
      ]_vars

C15_Witness ==
    /\ reports["d1"].pc = "done"
    /\ reports["d1"].resubmitted
    /\ reports["d1"].ready
    /\ Len(reports["d1"].result.extracted) = 2
    /\ reports["d1"].result.sections # << >>
    /\ reports["d1"].trace.response = [success |-> TRUE]
    /\ Len(reports["d1"].trace.finished) = 1

-----------------------------------------------------------------------------
(* Properties of tagged reports (TagSpec)                                   *)

\* Every section of the reported result carries the 'tags' key
TagsPresent ==
    \A i \in DOMAIN request.result.sections :
        request.result.sections[i].tags.type = "map"

Rejectable == Whitelisted \cup SchemaInvalid

\* C18: in a result report whose sections carry tags, each section keeps
\* exactly its tag values that neither the whitelister nor the schema
\* rejects, whatever the other sections carry; the values the schema
\* rejects are logged per section; and a report with a valid payload is
\* forwarded to service_finished with those sections and answered
\* success=true.
C18_RejectedTagsDropped ==
    (ResultReport /\ TagsPresent) =>
      /\ call.raised \in {"none", "ValueError"}
      /\ Len(call.sections) = Len(request.result.sections)
      /\ \A i \in DOMAIN request.result.sections :
           /\ call.sections[i].tags =
                Tags(request.result.sections[i].tags.values \ Rejectable)
           /\ call.dropped[i] =
                (request.result.sections[i].tags.values \ Whitelisted)
                   \cap SchemaInvalid
      /\ request.result.valid =>
           /\ Success
           /\ Len(call.finished) = 1
           /\ call.finished[1].sections = call.sections

C18_Witness ==
    /\ ResultReport
    /\ Len(request.result.sections) = 2
    /\ request.result.sections[1].tags = Tags({"evil.example", "not-an-ip"})
    /\ request.result.sections[2].tags = Tags({"evil.example", "safe.example"})
    /\ call.sections[1].tags = Tags({"evil.example"})
    /\ call.sections[2].tags = Tags({"evil.example"})
    /\ call.dropped = << {"not-an-ip"}, {} >>
    /\ Success
    /\ Len(call.finished) = 1

-----------------------------------------------------------------------------
(* Properties of the liveness tracker (TrackerSpec)                         *)

\* The step is a run of the report handler, of the pickup handler
ReportRuns == call = NoCall /\ call'.op = "task_finished"
PickupRuns == call = NoCall /\ call'.op = "get_task"

\* C21: a run of task_finished, with handle_task_result or
\* handle_task_error, makes no write to the status table and leaves the
\* entry of the reporting client and of every other client as it was; the
\* status table changes only in a run of get_task, and then only in the
\* entry of the calling client.
C21_ReportsLeaveTracker ==
    [][ /\ ReportRuns =>
             /\ call'.status_writes = << >>
             /\ status_table' = status_table
        /\ PickupRuns =>
             \A c \in Clients \ {request.client_id} :
                 status_table'[c] = status_table[c]
        /\ status_table' # status_table => PickupRuns
      ]_vars

C21_Witness ==
    /\ ReportCall
    /\ Success
    /\ call.status_writes = << >>
    /\ status_table[request.client_id] # NoEntry
    /\ status_table[request.client_id][2] = "Running"
    /\ \E c \in Clients \ {request.client_id} :
         status_table[c] # NoEntry /\ status_table[c][2] = "Idle"

====
